---- MODULE Spec2Model ----
(***************************************************************************)
(* netmon: periodic and on-demand network measurements.                    *)
(*                                                                         *)
(* The repository holds four generations of the program.  Each behaviour  *)
(* of this model is one run of one of them (variable "variant"):           *)
(*   "scheduler"  cmd/main.go 1-195:   run + Scheduler.Schedule            *)
(*   "monitor"    cmd/main.go 197-401: run + ping Monitor + speed Monitor  *)
(*   "process"    cmd/main.go 403-622: run + process + netmon.SpeedTest    *)
(*   "server"     cmd/server/main.go:  run + otelsdk.Setup + the handlers  *)
(***************************************************************************)
EXTENDS Integers, Sequences, FiniteSets

\* Number of configured targets of each kind (addresses, server ids).
NumTargets == 2

\* The interval of a ticker, in units of time.
Interval == 2

\* The length of the path value {ids} of a request, in characters.
MaxRaw == 1

\* The same for a request that is looked at on its own.
MaxLongRaw == 3

\* How often the holder of the shutdown function of the telemetry SDK calls
\* it.
MaxShutdownCalls == 3

\* The goroutines that share the Log, and the lines each of them logs.
NumLoggers == 3
MaxLines == 2

Kinds == {"ping", "speed"}
\* The periodic loops: one Monitor per kind, or the single loop of
\* Scheduler.Schedule / process that serves both kinds.
Loops == Kinds \cup {"sched"}
\* The HTTP requests that can be in flight at the same time: net/http runs
\* the handler of each in a goroutine of its own.
Reqs == {"req", "req2"}
\* Who runs a sequential round: run() itself, the periodic loop, a handler.
Callers == {"main", "loop"} \cup Reqs
Variants == {"scheduler", "monitor", "process", "server"}
\* What the network does to one probe of one target.
Net == {"ok", "err", "timeout"}

VARIABLES
    variant,      \* the generation of the program that runs
    mainPc,       \* position of run()
    sigPending,   \* chSignal holds a signal
    ctxDone,      \* the context of run() is cancelled
    srvClosed,    \* srv.Close / srv.Shutdown has been called
    httpPc,       \* the goroutine running srv.ListenAndServe
    runWg,        \* the WaitGroup of run()
    runErr,       \* run() returned a non-nil error ("process": the variable
                  \* err it returns holds one)
    closeErr,     \* srv.Close returned an error
    pc,           \* position of each periodic loop
    tickOn,       \* the ticker of each kind is running
    tickPending,  \* the channel of the ticker holds a tick
    wg,           \* the WaitGroup of the round of each Monitor
    units,        \* the goroutines spawned by the Monitors
    call,         \* the sequential round run by each caller
    reqCtxDone,   \* the context of each HTTP request is cancelled
    resp,         \* the status the handler of each request answered last
    active,       \* rounds of each kind started and not returned
    timer,        \* time until the ticker of each kind fires next
    started,      \* a round of the kind has been started
    nTargets,     \* the length of the configured list of addresses / ids
    interval,     \* the configured interval of the tickers
    otel,         \* the telemetry SDK: Setup and the shutdown it returns
    logger        \* the Log: its mutex and the goroutines inside Printf

vars == <<variant, mainPc, sigPending, ctxDone, srvClosed, httpPc, runWg,
          runErr, closeErr, pc, tickOn, tickPending, wg, units, call,
          reqCtxDone, resp, active, timer, started, nTargets, interval, otel,
          logger>>

\* The configuration is not changed after it was read.
cfgVars == <<variant, nTargets, interval>>

\* The configured targets of a kind.
Targets == 1..nTargets

mainVars == <<mainPc, sigPending, ctxDone, srvClosed, httpPc, runWg, runErr,
              closeErr>>
tickVars == <<tickOn, tickPending, timer>>
reqVars == <<reqCtxDone, resp>>

----------------------------------------------------------------------------
(* The configuration and the constructors.                                 *)

\* The intervals a configuration can hold: strconv.Atoi accepts zero and
\* negative numbers of seconds, and nothing checks the sign.
Intervals == {0 - Interval, 0, Interval}

\* The lengths of the target list a constructor can be handed.
ListLens(v) ==
    CASE v \in {"scheduler", "monitor"} -> 0..NumTargets
      [] v = "process" -> 1..NumTargets
      [] OTHER -> {NumTargets}

\* NewScheduler(pingCfg, speedCfg, pingFunc, speedTestFunc): an error for a
\* nil function; the lists and the intervals are not looked at.
NewScheduler(n, d, pingFuncNil, speedTestFuncNil) ==
    IF pingFuncNil \/ speedTestFuncNil THEN "err" ELSE "ok"

\* ping.New(logger, cfg) and NewPingMonitor(metricAPI, logger, cfg): the
\* Monitor is returned with a nil error whatever the configuration holds.
New(n, d) == "ok"

\* Whether run() gets the object it asks the constructor for; it passes
\* ping.Ping and speed.Test as the functions of the Scheduler.
Constructed(v, n, d) ==
    CASE v = "scheduler" -> NewScheduler(n, d, FALSE, FALSE) = "ok"
      [] v = "monitor" -> New(n, d) = "ok"
      [] OTHER -> TRUE

\* time.NewTicker(d) panics for a non-positive d.
NewTickerPanics(d) == d <= 0

\* A panic in a goroutine ends the process: run(), the listener and every
\* loop are gone.
Panic ==
    /\ mainPc' = "crashed"
    /\ httpPc' = "off"
    /\ pc' = [l \in DOMAIN pc |-> "panic"]

----------------------------------------------------------------------------
(* The probes.                                                             *)

\* The stages of measure for one target, in the order the code runs them.
\* ping:  ping.NewPinger, p.Run;  speed: PingTest, DownloadTest, UploadTest.
MeasureStages(k) ==
    IF k = "ping" THEN <<"create", "run">>
                  ELSE <<"ping", "download", "upload">>

\* Whether the stage is handed the context: p.Run() is not, the speedtest
\* calls are.
MeasureCtxAware(k) == k = "speed"

\* p.Run() with Count = 10 and no Timeout waits for the replies for ever.
MeasureCanHang(k, stage) == k = "ping" /\ stage = 2

\* The error of a probe: the network's, or the context's for a probe that
\* was handed the context.
ProbeFails(n, aware, done) == n # "ok" \/ (aware /\ done)

----------------------------------------------------------------------------
(* The sequential rounds: Scheduler.ping, Scheduler.speedTest,             *)
(* netmon.SpeedTest and netmon.Speed walk their targets in one goroutine.  *)

\* The servers speedtest.FetchServerListContext returns: the configured
\* ones and one more.
ServerList == [i \in 1..(NumTargets + 1) |-> i]

\* The configured addresses / server ids, in configuration order.
Configured == [i \in 1..nTargets |-> i]

\* The characters of the path value {ids} of a request.
Chars == {"1", "2", ","}

\* The path values a request can carry, the empty one included.
RawIds == UNION {[1..n -> Chars] : n \in 0..MaxRaw}

\* The position of the first comma of raw, 0 when there is none.
FirstComma(raw) ==
    IF \E i \in 1..Len(raw) : raw[i] = ","
    THEN CHOOSE i \in 1..Len(raw) :
             raw[i] = "," /\ \A j \in 1..(i - 1) : raw[j] # ","
    ELSE 0

RECURSIVE Split(_)
\* strings.Split(raw, ","): the pieces between the commas; a value without
\* a comma, the empty one too, is one piece.
Split(raw) ==
    IF FirstComma(raw) = 0
    THEN <<raw>>
    ELSE <<SubSeq(raw, 1, FirstComma(raw) - 1)>>
             \o Split(SubSeq(raw, FirstComma(raw) + 1, Len(raw)))

\* Mutant: the empty path value is not rejected.
GetServerIDsUnchecked(raw) == [err |-> FALSE, ids |-> Split(raw)]

\* getServerIDs: an empty path value is an error, any other is split.
GetServerIDs(raw) ==
    IF raw = <<>> THEN [err |-> TRUE, ids |-> <<>>]
                  ELSE [err |-> FALSE, ids |-> Split(raw)]

\* The path values of a request that is looked at on its own.
LongRawIds == UNION {[1..n -> Chars] : n \in 0..MaxLongRaw}

\* The server id lists a request can carry.
IdLists == {GetServerIDs(raw).ids : raw \in RawIds \ {<<>>}}

\* The calls made once, before the targets are walked; an error of any of
\* them is the error of the round.
SetupStages(fn) ==
    CASE fn = "speedTest" -> <<"speedTestFunc">>
      [] fn \in {"SpeedTestPing", "SpeedTestFull"} -> <<"user", "list">>
      [] fn = "Ping" -> <<"list">>
      [] OTHER -> <<>>

\* The calls made for each target, in order.
TargetStages(fn) ==
    CASE fn = "ping" -> <<"pingFunc">>
      [] fn = "SpeedTestPing" -> <<"ping">>
      [] fn = "SpeedTestFull" -> <<"ping", "download", "upload">>
      [] fn = "Speed" -> <<"fetch", "ping", "download", "upload">>
      [] fn = "Ping" -> <<"ping">>
      [] OTHER -> <<>>

\* The targets the function walks.  With pingOnly SpeedTest does not call
\* FindServer and walks the whole server list.
CallTargets(fn, ids) ==
    CASE fn = "ping" -> Configured
      [] fn = "SpeedTestPing" -> ServerList
      [] fn = "SpeedTestFull" -> Configured
      [] fn = "Speed" -> ids
      [] fn = "Ping" -> ServerList
      [] OTHER -> <<>>

\* Whether the call is handed the context: pingFunc(address) and
\* speedtest.FetchServerByID(serverID) are not.
StageCtxAware(fn, stage) == ~(stage \in {"pingFunc", "fetch"})

\* Mutant: every function returns at the first error of a target.
OnFailReturn(fn) == "return"

\* What the function does with the error of a target's stage: log or record
\* it and go on with the next target, or return it.
OnFail(fn) ==
    IF fn \in {"SpeedTestPing", "SpeedTestFull"} THEN "return" ELSE "continue"

IdleCall ==
    [fn |-> "none", kind |-> "none", st |-> "idle", targets |-> <<>>,
     i |-> 0, stage |-> 0, res |-> <<>>, err |-> FALSE]

\* The state of a call that has dealt with its targets before index i.
AtTarget(c, i) ==
    IF i > Len(c.targets)
    THEN [c EXCEPT !.st = "returned", !.i = i, !.stage = 0]
    ELSE [c EXCEPT !.i = i, !.stage = 1]

\* The function is entered.
StartCall(fn, kind, ids) ==
    LET c == [IdleCall EXCEPT !.fn = fn, !.kind = kind, !.st = "run",
                              !.targets = CallTargets(fn, ids)]
    IN  IF SetupStages(fn) = <<>> THEN AtTarget(c, 1)
                                  ELSE [c EXCEPT !.stage = 1]

\* The rounds in flight once round d of kind k has been entered: a round
\* without targets and without calls before them has returned by then.
ActiveWith(k, d) ==
    IF d.st = "returned" THEN active ELSE [active EXCEPT ![k] = @ + 1]

----------------------------------------------------------------------------
(* Tickers (time.Ticker): the channel holds at most one tick.             *)

\* Mutant: Stop() leaves the ticker running.
TickerStillOn == TRUE

\* tc.Stop(): whether the ticker runs afterwards.
TickerStopped == FALSE

\* Mutant: the channel queues the ticks that fall due while the loop is
\* busy, and still holds one after the receive.
ChanQueued == TRUE

\* <-tc.C: whether the channel holds a tick after the receive.  Its buffer
\* holds one tick and a tick that finds it full is dropped.
ChanLeft == FALSE

\* Mutant: the loop forgets tc.Reset and the ticker stays stopped.
TickerNotReset == FALSE

\* tc.Reset(interval): whether the ticker runs afterwards.
TickerReset == TRUE

\* Mutant: the ticker keeps the schedule of the tick that started the
\* round.
ResetKeepsSchedule(left) == left

\* tc.Reset(interval), time.NewTicker(interval): the time until the next
\* tick, given the time that was left of the period before.
ResetTimer(left) == interval

\* The period of the ticker of kind k has passed and the ticker fires; the
\* next period begins.  A tick that finds the channel full is lost.
Tick(k) ==
    /\ tickOn[k]
    /\ timer[k] = 0
    /\ tickPending' = [tickPending EXCEPT ![k] = TRUE]
    /\ timer' = [timer EXCEPT ![k] = ResetTimer(@)]
    /\ UNCHANGED <<cfgVars, otel, logger, mainVars, pc, tickOn, wg, units, call,
                   reqVars, active, started>>

\* One unit of time passes, once the loops have been entered (a unit of
\* time is of the order of the interval).  A running ticker whose period
\* has passed fires first.  For a stopped ticker the time left until the
\* tick it would have sent goes on running down.
Tock ==
    /\ \A l \in Loops : pc[l] # "start"
    /\ \A k \in Kinds : tickOn[k] => timer[k] > 0
    /\ \E k \in Kinds : timer[k] > 0
    /\ timer' = [k \in Kinds |-> IF timer[k] > 0 THEN timer[k] - 1 ELSE 0]
    /\ UNCHANGED <<cfgVars, otel, logger, mainVars, pc, tickOn, tickPending, wg,
                   units, call, reqVars, active, started>>

----------------------------------------------------------------------------
(* variant "monitor": Monitor.Monitor and Monitor.measure, one goroutine  *)
(* per kind and, in a round, one goroutine per target.                    *)

\* A goroutine running measure for target t: the stage it is in, and once
\* it has returned ("ok": every stage succeeded and the result was handed
\* to the reporter, "failed": a stage returned an error) what the network
\* did to its last probe and what the reporter answered, if it was called.
\* errs: the stages whose error the unit has passed over.
NewUnit(k, t) ==
    [k |-> k, t |-> t, stage |-> 1, st |-> "run", net |-> "ok", rep |-> "none",
     errs |-> {}]

Live(u) == u.st \in {"run", "hung"}

\* The units of the round of kind k.
UnitsOf(k) == {u \in units : u.k = k}

\* Mutant: the round waits for one unit too few.
WgAddShort(n) == n - 1

\* wg.Add: the number of units the round will wait for.
WgAdd(n) == n

\* wg.Wait returns.
JoinReady(k) == wg[k] = 0

\* Monitor is entered: tc := time.NewTicker(interval).
MonitorStart(k) ==
    /\ variant = "monitor"
    /\ pc[k] = "start"
    /\ IF NewTickerPanics(interval)
       THEN Panic /\ UNCHANGED tickVars
       ELSE /\ pc' = [pc EXCEPT ![k] = "select"]
            /\ tickOn' = [tickOn EXCEPT ![k] = TRUE]
            /\ timer' = [timer EXCEPT ![k] = ResetTimer(@)]
            /\ UNCHANGED <<mainPc, httpPc, tickPending>>
    /\ UNCHANGED <<cfgVars, otel, logger, sigPending, ctxDone, srvClosed, runWg,
                   runErr, closeErr, wg, units, call, reqVars, active,
                   started>>

\* Mutant: the goroutine reads the loop variable, which by the time it runs
\* holds the last of the n targets.
GoArgShared(t, n) == n

\* go func(addr string) { ... }(address): the target the goroutine started
\* in the iteration for target t measures, of n targets: it is handed its
\* target as an argument.
GoArg(t, n) == t

\* case <-tc.C: tc.Stop(), then one goroutine per target.
MonitorTick(k) ==
    /\ variant = "monitor"
    /\ pc[k] = "select"
    /\ tickPending[k]
    /\ tickPending' = [tickPending EXCEPT ![k] = ChanLeft]
    /\ tickOn' = [tickOn EXCEPT ![k] = TickerStopped]
    /\ wg' = [wg EXCEPT ![k] = @ + WgAdd(nTargets)]
    /\ units' = units \cup {NewUnit(k, GoArg(t, nTargets)) : t \in Targets}
    /\ pc' = [pc EXCEPT ![k] = "join"]
    /\ active' = [active EXCEPT ![k] = @ + 1]
    /\ started' = [started EXCEPT ![k] = TRUE]
    /\ UNCHANGED <<cfgVars, otel, logger, mainVars, timer, call, reqVars>>

\* wg.Wait(); tc.Reset(interval): the round has returned.
MonitorJoin(k) ==
    /\ variant = "monitor"
    /\ pc[k] = "join"
    /\ JoinReady(k)
    /\ tickOn' = [tickOn EXCEPT ![k] = TickerReset]
    /\ timer' = [timer EXCEPT ![k] = ResetTimer(@)]
    /\ pc' = [pc EXCEPT ![k] = "select"]
    /\ active' = [active EXCEPT ![k] = @ - 1]
    /\ units' = {u \in units : u.k # k \/ Live(u)}
    /\ UNCHANGED <<cfgVars, otel, logger, mainVars, tickPending, wg, call, reqVars,
                   started>>

\* case <-ctx.Done(): return; the goroutine of run() then calls wg.Done().
MonitorCtxDone(k) ==
    /\ variant = "monitor"
    /\ pc[k] = "select"
    /\ ctxDone
    /\ pc' = [pc EXCEPT ![k] = "done"]
    /\ runWg' = runWg - 1
    /\ UNCHANGED <<cfgVars, otel, logger, mainPc, sigPending, ctxDone, srvClosed,
                   httpPc, runErr, closeErr, tickVars, wg, units, call, reqVars, active,
                   started>>

\* Mutant: wg.Done() is called at the end of measure, which a return after
\* an error does not reach.
WgDoneAtEnd(st) == IF st = "failed" THEN 0 ELSE 1

\* wg.Done() in the goroutine, after the call of measure: what it takes
\* from the counter when measure has returned with outcome st, by whichever
\* return statement.
WgDone(st) == 1

\* measure returns and the goroutine calls wg.Done().
UnitEnds(u, st, n, r) ==
    /\ units' = (units \ {u}) \cup
                    {[u EXCEPT !.st = st, !.stage = 0, !.net = n, !.rep = r]}
    /\ wg' = [wg EXCEPT ![u.k] = @ - WgDone(st)]

\* One probe stage of measure returns: an error ends the unit.
MeasureStage(u) ==
    /\ variant = "monitor"
    /\ u.st = "run"
    /\ u.stage <= Len(MeasureStages(u.k))
    /\ \E n \in Net :
         IF ProbeFails(n, MeasureCtxAware(u.k), ctxDone)
         THEN UnitEnds(u, "failed", n, "none")
         ELSE /\ units' = (units \ {u}) \cup {[u EXCEPT !.stage = @ + 1]}
              /\ UNCHANGED wg
    /\ UNCHANGED <<cfgVars, otel, logger, mainVars, pc, tickVars, call, reqVars,
                   active, started>>

\* A probe that is not handed the context and never returns.
MeasureHang(u) ==
    /\ variant = "monitor"
    /\ u.st = "run"
    /\ MeasureCanHang(u.k, u.stage)
    /\ units' = (units \ {u}) \cup {[u EXCEPT !.st = "hung"]}
    /\ UNCHANGED <<cfgVars, otel, logger, mainVars, pc, tickVars, wg, call, reqVars,
                   active, started>>

\* What the reporter answers.
Reports == {"ok", "err"}

\* Mutant: an error of the reporter makes the unit a failed one.
ReportOutcomeErr(r) == IF r = "err" THEN "failed" ELSE "ok"

\* The outcome of a unit whose probes succeeded, given the reporter's
\* answer: the error is logged and changes nothing.
ReportOutcome(r) == "ok"

\* metricAPI.ReportPing / ReportSpeed is called once with the result, then
\* measure returns.
MeasureReport(u) ==
    /\ variant = "monitor"
    /\ u.st = "run"
    /\ u.stage = Len(MeasureStages(u.k)) + 1
    /\ \E r \in Reports : UnitEnds(u, ReportOutcome(r), "ok", r)
    /\ UNCHANGED <<cfgVars, otel, logger, mainVars, pc, tickVars, call, reqVars,
                   active, started>>

\* SpeedMonitor.measure of package netmon: srv.PingTestContext(ctx),
\* srv.DownloadTestContext(ctx, false), srv.UploadTestContext(ctx, false).
\* The error each of them returns is dropped and the next statement runs.
SpeedMonitorMeasure(u) ==
    /\ variant = "monitor"
    /\ u.k = "speed"
    /\ u.st = "run"
    /\ u.stage <= Len(MeasureStages(u.k))
    /\ \E n \in Net :
         units' = (units \ {u}) \cup
             {IF ProbeFails(n, MeasureCtxAware(u.k), ctxDone)
              THEN [u EXCEPT !.stage = @ + 1, !.net = n,
                             !.errs = @ \cup {MeasureStages(u.k)[u.stage]}]
              ELSE [u EXCEPT !.stage = @ + 1]}
    /\ UNCHANGED <<cfgVars, otel, logger, mainVars, pc, tickVars, wg, call, reqVars,
                   active, started>>

\* SpeedMonitor.measure: sm.metricAPI.ReportSpeed(ctx, srv) with whatever
\* srv holds, then measure returns.  The unit has failed if a stage did.
SpeedMonitorReport(u) ==
    /\ variant = "monitor"
    /\ u.k = "speed"
    /\ u.st = "run"
    /\ u.stage = Len(MeasureStages(u.k)) + 1
    /\ \E r \in Reports :
         UnitEnds(u, IF u.errs = {} THEN ReportOutcome(r) ELSE "failed",
                  u.net, r)
    /\ UNCHANGED <<cfgVars, otel, logger, mainVars, pc, tickVars, call, reqVars,
                   active, started>>

----------------------------------------------------------------------------
(* Log.Printf: l.mu.Lock(); log.Printf(format, v...); l.mu.Unlock().  The   *)
(* goroutines of a round, the Monitors and run() share one Log.            *)

Loggers == 1..NumLoggers

\* The Log before anything is logged: the mutex is free, no goroutine is in
\* Printf, none has logged a line.
LogIdle ==
    [mu |-> FALSE, pc |-> [g \in Loggers |-> "out"],
     lines |-> [g \in Loggers |-> 0]]

\* Goroutine g calls Printf and comes to l.mu.Lock().
LogCall(g) ==
    /\ logger.pc[g] = "out"
    /\ logger.lines[g] < MaxLines
    /\ logger' = [logger EXCEPT !.pc[g] = "lock", !.lines[g] = @ + 1]
    /\ UNCHANGED <<cfgVars, otel, mainVars, pc, tickVars, wg, units, call,
                   reqVars, active, started>>

\* l.mu.Lock() returns: the mutex was free and g holds it.
LogLock(g) ==
    /\ logger.pc[g] = "lock"
    /\ ~logger.mu
    /\ logger' = [logger EXCEPT !.pc[g] = "print", !.mu = TRUE]
    /\ UNCHANGED <<cfgVars, otel, mainVars, pc, tickVars, wg, units, call,
                   reqVars, active, started>>

\* log.Printf(format, v...) returns: the line is written.
LogPrintf(g) ==
    /\ logger.pc[g] = "print"
    /\ logger' = [logger EXCEPT !.pc[g] = "unlock"]
    /\ UNCHANGED <<cfgVars, otel, mainVars, pc, tickVars, wg, units, call,
                   reqVars, active, started>>

\* Mutant: Printf returns without l.mu.Unlock().
MutexKept == TRUE

\* l.mu.Unlock(): whether the mutex is held afterwards.
MutexReleased == FALSE

\* l.mu.Unlock(), and Printf returns.
LogUnlock(g) ==
    /\ logger.pc[g] = "unlock"
    /\ logger' = [logger EXCEPT !.pc[g] = "out", !.mu = MutexReleased]
    /\ UNCHANGED <<cfgVars, otel, mainVars, pc, tickVars, wg, units, call,
                   reqVars, active, started>>

----------------------------------------------------------------------------
(* The steps of a sequential round.                                        *)

\* result.Server when the target ends in the given stage: Speed sets it to
\* the sponsor of the fetched server, so it is still empty when
\* FetchServerByID fails; Ping takes it from the server list.
ResultServer(fn, stage) ==
    IF fn = "Speed" /\ stage = "fetch" THEN "" ELSE "sponsor"

\* Whether the function the ping test is handed has been called when the
\* test returns.  Speed hands server.PingTestContext a function that
\* stores the latency it is called with in the result; the test calls it
\* with what it has measured, which it may have done before it fails.
Callback(fn, stage, fails) ==
    IF fn = "Speed" /\ stage = "ping"
    THEN (IF fails THEN BOOLEAN ELSE {TRUE})
    ELSE {FALSE}

\* The stages of the target of d that have succeeded when its current
\* stage returns.
Succeeded(d, ok) ==
    {TargetStages(d.fn)[j] :
         j \in 1..(IF ok THEN d.stage ELSE d.stage - 1)}

\* The entry of target id in the results: ok for Err == nil, and for a
\* SpeedResult whether Latency, DL and UL have been assigned; DL and UL are
\* assigned after the download and the upload test have returned without
\* error.
Result(d, id, ok, n, cb) ==
    [id |-> id, ok |-> ok, net |-> n,
     server |-> ResultServer(d.fn, TargetStages(d.fn)[d.stage]),
     lat |-> d.fn = "Speed" /\ (cb \/ "ping" \in Succeeded(d, ok)),
     dl |-> d.fn = "Speed" /\ "download" \in Succeeded(d, ok),
     ul |-> d.fn = "Speed" /\ "upload" \in Succeeded(d, ok)]

\* Mutant: the entries of failed targets are put in front of the results.
RecordFailuresFirst(d, id, ok, n, cb) ==
    IF ok THEN [d EXCEPT !.res = Append(@, Result(d, id, ok, n, cb))]
          ELSE [d EXCEPT !.res = <<Result(d, id, ok, n, cb)>> \o @]

\* Mutant: the failure branches forget to append.
RecordSuccessOnly(d, id, ok, n, cb) ==
    IF ok THEN [d EXCEPT !.res = Append(@, Result(d, id, ok, n, cb))]
          ELSE d

\* results = append(results, result): the outcome of target id is recorded,
\* with what the network did to the stage that ended it.
Record(d, id, ok, n, cb) ==
    [d EXCEPT !.res = Append(@, Result(d, id, ok, n, cb))]

\* Mutant: the requests share one context.
CallCtxShared(c) ==
    IF c \in Reqs THEN \E x \in Reqs : reqCtxDone[x] ELSE ctxDone

\* The context the caller hands to the round.
CallCtxDone(c) == IF c \in Reqs THEN reqCtxDone[c] ELSE ctxDone

\* The call of caller c moves to state d; a scheduled round that returns
\* is no longer in flight.
CallMoves(c, d) ==
    /\ call' = [call EXCEPT ![c] = d]
    /\ active' = IF d.st = "returned" /\ c \notin Reqs
                 THEN [active EXCEPT ![d.kind] = @ - 1]
                 ELSE active

\* One of the calls made before the targets are walked returns.
CallSetup(c) ==
    LET d == call[c] IN
    /\ d.st = "run"
    /\ d.i = 0
    /\ \E n \in Net :
         IF ProbeFails(n, StageCtxAware(d.fn, SetupStages(d.fn)[d.stage]),
                       CallCtxDone(c))
         THEN CallMoves(c, [d EXCEPT !.st = "returned", !.err = TRUE])
         ELSE IF d.stage < Len(SetupStages(d.fn))
              THEN CallMoves(c, [d EXCEPT !.stage = @ + 1])
              ELSE CallMoves(c, AtTarget(d, 1))
    /\ UNCHANGED <<cfgVars, otel, logger, mainVars, pc, tickVars, wg, units, reqVars,
                   started>>

\* One stage of the current target returns.  An error is recorded for the
\* target and ends it; the last stage's success records the result.
CallStage(c) ==
    LET d == call[c]
        stages == TargetStages(d.fn)
        id == d.targets[d.i]
    IN
    /\ d.st = "run"
    /\ d.i >= 1
    /\ \E n \in Net :
         IF ProbeFails(n, StageCtxAware(d.fn, stages[d.stage]), CallCtxDone(c))
         THEN \E cb \in Callback(d.fn, stages[d.stage], TRUE) :
              LET e == Record(d, id, FALSE, n, cb)
              IN  IF OnFail(d.fn) = "continue"
                  THEN CallMoves(c, AtTarget(e, d.i + 1))
                  ELSE CallMoves(c, [e EXCEPT !.st = "returned", !.err = TRUE])
         ELSE IF d.stage < Len(stages)
              THEN CallMoves(c, [d EXCEPT !.stage = @ + 1])
              ELSE CallMoves(c, AtTarget(Record(d, id, TRUE, n, FALSE), d.i + 1))
    /\ UNCHANGED <<cfgVars, otel, logger, mainVars, pc, tickVars, wg, units, reqVars,
                   started>>

----------------------------------------------------------------------------
(* variants "scheduler" and "process": Scheduler.Schedule and process, one *)
(* goroutine that serves the tickers of both kinds.                        *)

\* The function a tick of kind k runs.
RoundFn(v, k) ==
    IF v = "scheduler"
    THEN (IF k = "ping" THEN "ping" ELSE "speedTest")
    ELSE (IF k = "ping" THEN "SpeedTestPing" ELSE "SpeedTestFull")

\* Mutant: the round is started in a goroutine of its own ("go s.ping()")
\* and the loop does not wait for it.
RoundNotAwaited == TRUE

\* The synchronous call of the round has returned to the loop.
RoundReturned == call["loop"].st = "returned"

\* Schedule: s.ping(), the initial latency round.
ScheduleInitPing ==
    /\ variant = "scheduler"
    /\ pc["sched"] = "start"
    /\ pc' = [pc EXCEPT !["sched"] = "ping0"]
    /\ call' = [call EXCEPT !["loop"] = StartCall("ping", "ping", <<>>)]
    /\ active' = ActiveWith("ping", call'["loop"])
    /\ started' = [started EXCEPT !["ping"] = TRUE]
    /\ UNCHANGED <<cfgVars, otel, logger, mainVars, tickVars, wg, units, reqVars>>

\* Schedule: s.speedTest(ctx), the initial throughput round.
ScheduleInitSpeed ==
    /\ variant = "scheduler"
    /\ pc["sched"] = "ping0"
    /\ RoundReturned
    /\ pc' = [pc EXCEPT !["sched"] = "speed0"]
    /\ call' = [call EXCEPT !["loop"] = StartCall("speedTest", "speed", <<>>)]
    /\ active' = ActiveWith("speed", call'["loop"])
    /\ started' = [started EXCEPT !["speed"] = TRUE]
    /\ UNCHANGED <<cfgVars, otel, logger, mainVars, tickVars, wg, units, reqVars>>

\* Schedule: time.NewTicker for both kinds, after the initial rounds, then
\* the loop.
ScheduleTickers ==
    /\ variant = "scheduler"
    /\ pc["sched"] = "speed0"
    /\ RoundReturned
    /\ call' = [call EXCEPT !["loop"] = IdleCall]
    /\ IF NewTickerPanics(interval)
       THEN Panic /\ UNCHANGED <<tickOn, timer>>
       ELSE /\ pc' = [pc EXCEPT !["sched"] = "select"]
            /\ tickOn' = [k \in Kinds |-> TRUE]
            /\ timer' = [k \in Kinds |-> ResetTimer(timer[k])]
            /\ UNCHANGED <<mainPc, httpPc>>
    /\ UNCHANGED <<cfgVars, otel, logger, sigPending, ctxDone, srvClosed, runWg,
                   runErr, closeErr, tickPending, wg, units, reqVars, active,
                   started>>

\* case <-pingTimer.C / <-speedTimer.C: Stop(), then the round.
LoopTick(k) ==
    /\ variant \in {"scheduler", "process"}
    /\ pc["sched"] = "select"
    /\ tickPending[k]
    /\ tickPending' = [tickPending EXCEPT ![k] = ChanLeft]
    /\ tickOn' = [tickOn EXCEPT ![k] = TickerStopped]
    /\ pc' = [pc EXCEPT !["sched"] = "round"]
    /\ call' = [call EXCEPT !["loop"] = StartCall(RoundFn(variant, k), k, <<>>)]
    /\ active' = ActiveWith(k, call'["loop"])
    /\ started' = [started EXCEPT ![k] = TRUE]
    /\ UNCHANGED <<cfgVars, otel, logger, mainVars, timer, wg, units, reqVars>>

\* The round returned (its error is logged): Reset(interval), select again.
LoopResume ==
    /\ variant \in {"scheduler", "process"}
    /\ pc["sched"] = "round"
    /\ RoundReturned
    /\ tickOn' = [tickOn EXCEPT ![call["loop"].kind] = TickerReset]
    /\ timer' = [timer EXCEPT ![call["loop"].kind] = ResetTimer(@)]
    /\ pc' = [pc EXCEPT !["sched"] = "select"]
    /\ call' = [call EXCEPT !["loop"] = IdleCall]
    /\ UNCHANGED <<cfgVars, otel, logger, mainVars, tickPending, wg, units, reqVars,
                   active, started>>

\* case <-ctx.Done(): return.  process stops both tickers and its goroutine
\* calls wg.Done(); Schedule does neither.
LoopCtxDone ==
    /\ variant \in {"scheduler", "process"}
    /\ pc["sched"] = "select"
    /\ ctxDone
    /\ pc' = [pc EXCEPT !["sched"] = "done"]
    /\ IF variant = "process"
       THEN /\ tickOn' = [k \in Kinds |-> FALSE]
            /\ runWg' = runWg - 1
       ELSE UNCHANGED <<tickOn, runWg>>
    /\ UNCHANGED <<cfgVars, otel, logger, mainPc, sigPending, ctxDone, srvClosed,
                   httpPc, runErr, closeErr, tickPending, timer, wg, units, call,
                   reqVars, active, started>>

----------------------------------------------------------------------------
(* run(): the lifecycle.                                                   *)

\* The operating system delivers SIGINT or SIGTERM.
Signal ==
    /\ mainPc \notin {"returned", "crashed"}
    /\ ~sigPending
    /\ ~srvClosed
    /\ sigPending' = TRUE
    /\ UNCHANGED <<cfgVars, otel, logger, mainPc, ctxDone, srvClosed, httpPc, runWg,
                   runErr, closeErr, pc, tickVars, wg, units, call, reqVars, active,
                   started>>

\* The goroutine of the listener has still to return from ListenAndServe
\* and to assign its error to err, the variable of run() it shares with
\* run() without synchronisation.
ListenerWrites == httpPc = "listening"

\* case sig := <-chSignal: err = srv.Close(); if err != nil { return ... };
\* cnl().  When err is not nil run() returns an error at once and the
\* deferred cnl() cancels.  between: ListenAndServe, which returns
\* http.ErrServerClosed as soon as the server is closed, has returned and
\* the listener's goroutine has assigned err between the assignment and the
\* read of run().
RunSignal ==
    /\ variant \in {"scheduler", "monitor"}
    /\ mainPc = "select"
    /\ sigPending
    /\ sigPending' = FALSE
    /\ srvClosed' = TRUE
    /\ ctxDone' = TRUE
    /\ \E closeOk \in BOOLEAN, between \in {b \in BOOLEAN : b => ListenerWrites} :
         /\ closeErr' = ~closeOk
         /\ httpPc' = IF between THEN "exited" ELSE httpPc
         /\ IF closeOk /\ ~between
            THEN UNCHANGED <<mainPc, runErr>>
            ELSE mainPc' = "returned" /\ runErr' = TRUE
    /\ UNCHANGED <<cfgVars, otel, logger, runWg, pc, tickVars, wg, units, call,
                   reqVars, active, started>>

\* Whether run() waits for its goroutines before it returns.
RunWaits(v) == v = "monitor"

\* case <-ctx.Done(): wg.Wait(); return nil.
RunCtxDone ==
    /\ variant \in {"scheduler", "monitor"}
    /\ mainPc = "select"
    /\ ctxDone
    /\ mainPc' = IF RunWaits(variant) THEN "wait" ELSE "returned"
    /\ UNCHANGED <<cfgVars, otel, logger, sigPending, ctxDone, srvClosed, httpPc,
                   runWg, runErr, closeErr, pc, tickVars, wg, units, call, reqVars,
                   active, started>>

\* wg.Wait() returns.
RunWait ==
    /\ mainPc = "wait"
    /\ runWg = 0
    /\ mainPc' = "returned"
    /\ UNCHANGED <<cfgVars, otel, logger, sigPending, ctxDone, srvClosed, httpPc,
                   runWg, runErr, closeErr, pc, tickVars, wg, units, call, reqVars,
                   active, started>>

\* variant "process": the first measurement, run by run() itself before
\* anything is started; its error is the error of run().
RunFirst ==
    /\ variant = "process"
    /\ mainPc = "start"
    /\ mainPc' = "first"
    /\ call' = [call EXCEPT !["main"] = StartCall("SpeedTestFull", "speed", <<>>)]
    /\ active' = ActiveWith("speed", call'["main"])
    /\ started' = [started EXCEPT !["speed"] = TRUE]
    /\ UNCHANGED <<cfgVars, otel, logger, sigPending, ctxDone, srvClosed, httpPc,
                   runWg, runErr, closeErr, pc, tickVars, wg, units, reqVars>>

\* variant "process": the first measurement returned; the listener and
\* process are started (wg.Add(1) each) and process creates its tickers, or
\* run() returns the error.
RunStart ==
    /\ variant = "process"
    /\ mainPc = "first"
    /\ call["main"].st = "returned"
    /\ call' = [call EXCEPT !["main"] = IdleCall]
    /\ IF call["main"].err
       THEN /\ mainPc' = "returned"
            /\ runErr' = TRUE
            /\ ctxDone' = TRUE
            /\ UNCHANGED <<httpPc, runWg, pc, tickOn, timer>>
       ELSE IF NewTickerPanics(interval)
            THEN /\ Panic
                 /\ runWg' = runWg + 2
                 /\ UNCHANGED <<runErr, ctxDone, tickOn, timer>>
            ELSE /\ mainPc' = "recv"
                 /\ httpPc' = "listening"
                 /\ runWg' = runWg + 2
                 /\ pc' = [pc EXCEPT !["sched"] = "select"]
                 /\ tickOn' = [k \in Kinds |-> TRUE]
                 /\ timer' = [k \in Kinds |-> ResetTimer(timer[k])]
                 /\ UNCHANGED <<runErr, ctxDone>>
    /\ UNCHANGED <<cfgVars, otel, logger, sigPending, srvClosed, closeErr,
                   tickPending, wg, units, reqVars, active, started>>

\* variant "process": sig := <-chSignal; err = srv.Close() (an error is
\* logged); cnl(); then wg.Wait().  before: the listener's goroutine has
\* assigned err and called wg.Done() before run() assigns the error of
\* Close to it.
RunRecv ==
    /\ variant = "process"
    /\ mainPc = "recv"
    /\ sigPending
    /\ sigPending' = FALSE
    /\ srvClosed' = TRUE
    /\ ctxDone' = TRUE
    /\ mainPc' = "wait"
    /\ \E closeOk \in BOOLEAN, before \in {b \in BOOLEAN : b => ListenerWrites} :
         /\ closeErr' = ~closeOk
         /\ runErr' = ~closeOk
         /\ httpPc' = IF before THEN "exited" ELSE httpPc
         /\ runWg' = IF before THEN runWg - 1 ELSE runWg
    /\ UNCHANGED <<cfgVars, otel, logger, pc, tickVars, wg, units, call, reqVars,
                   active, started>>

\* err = srv.ListenAndServe() in the goroutine of the listener: whether the
\* error run() is going to return is not nil afterwards, e telling whether
\* it was before.  "process" returns the variable the goroutine assigns; the
\* run() of the other variants returns nil or an error of its own making,
\* and the server hands the error over a channel.
ListenerErr(v, e) == IF v = "process" THEN TRUE ELSE e

\* srv.ListenAndServe returns http.ErrServerClosed once the server is
\* closed and the goroutine assigns it to err; in variant "process" the
\* goroutine then calls wg.Done().
HttpReturns ==
    /\ httpPc = "listening"
    /\ srvClosed
    /\ httpPc' = "exited"
    /\ runErr' = ListenerErr(variant, runErr)
    /\ runWg' = IF variant = "process" THEN runWg - 1 ELSE runWg
    /\ UNCHANGED <<cfgVars, otel, logger, mainPc, sigPending, ctxDone, srvClosed,
                   closeErr, pc, tickVars, wg, units, call, reqVars, active,
                   started>>

----------------------------------------------------------------------------
(* otelsdk.Setup and the shutdown function it returns.                     *)

\* The cleanups Setup registers: tracerProvider.Shutdown.
Cleanups == {"tracerProvider"}

\* The state of the SDK: the position of Setup, shutdownFuncs, how often
\* each cleanup has been invoked and which invocations returned an error,
\* how often shutdown has been called, what it returned last and the error
\* Setup returned.
OtelOff ==
    [pc |-> "off", funcs |-> <<>>, invoked |-> [f \in Cleanups |-> 0],
     failed |-> {}, calls |-> 0, ret |-> {}, err |-> {}]

\* The cleanups in shutdownFuncs.
Registered(o) == {o.funcs[i] : i \in 1..Len(o.funcs)}

\* How often f is in shutdownFuncs.
Pending(o, f) == Cardinality({i \in 1..Len(o.funcs) : o.funcs[i] = f})

\* Mutant: shutdown leaves shutdownFuncs as it is.
ShutdownKeepsFuncs(o, fails) ==
    [o EXCEPT !.invoked = [f \in Cleanups |-> @[f] + Pending(o, f)],
              !.failed = @ \cup (Registered(o) \cap fails),
              !.ret = Registered(o) \cap fails,
              !.calls = @ + 1]

\* shutdown(ctx): every function of shutdownFuncs is called, the errors are
\* joined and returned, and shutdownFuncs is set to nil.  fails: the
\* cleanups that return an error when called.
Shutdown(o, fails) ==
    [o EXCEPT !.invoked = [f \in Cleanups |-> @[f] + Pending(o, f)],
              !.failed = @ \cup (Registered(o) \cap fails),
              !.ret = Registered(o) \cap fails,
              !.funcs = <<>>,
              !.calls = @ + 1]

\* handleErr(inErr): err = errors.Join(inErr, shutdown(ctx)); Setup returns.
HandleErr(o, inErr, fails) ==
    [Shutdown(o, fails) EXCEPT !.pc = "returned",
                               !.err = {inErr} \cup Shutdown(o, fails).ret]

\* Setup: newResource.  run() returns the error of Setup.
SetupResource ==
    /\ variant = "server"
    /\ otel.pc = "resource"
    /\ \E ok \in BOOLEAN, fails \in SUBSET Cleanups :
         IF ok
         THEN /\ otel' = [otel EXCEPT !.pc = "tracer"]
              /\ UNCHANGED <<mainPc, runErr>>
         ELSE /\ otel' = HandleErr(otel, "resource", fails)
              /\ mainPc' = "returned"
              /\ runErr' = TRUE
    /\ UNCHANGED <<cfgVars, logger, sigPending, ctxDone, srvClosed, httpPc, runWg,
                   closeErr, pc, tickVars, wg, units, call, reqVars, active,
                   started>>

\* Setup: newTraceProvider; its Shutdown is appended to shutdownFuncs and
\* Setup returns.  run() then creates the server and starts the listener.
SetupTracer ==
    /\ variant = "server"
    /\ otel.pc = "tracer"
    /\ \E ok \in BOOLEAN, fails \in SUBSET Cleanups :
         IF ok
         THEN /\ otel' = [otel EXCEPT !.pc = "returned",
                                      !.funcs = Append(@, "tracerProvider")]
              /\ mainPc' = "select"
              /\ httpPc' = "listening"
              /\ UNCHANGED runErr
         ELSE /\ otel' = HandleErr(otel, "tracer", fails)
              /\ mainPc' = "returned"
              /\ runErr' = TRUE
              /\ UNCHANGED httpPc
    /\ UNCHANGED <<cfgVars, logger, sigPending, ctxDone, srvClosed, runWg, closeErr,
                   pc, tickVars, wg, units, call, reqVars, active, started>>

\* The holder of the shutdown function calls it.
ShutdownCall ==
    /\ otel.pc = "returned"
    /\ otel.calls < MaxShutdownCalls
    /\ \E fails \in SUBSET Cleanups : otel' = Shutdown(otel, fails)
    /\ UNCHANGED <<cfgVars, logger, mainVars, pc, tickVars, wg, units, call, reqVars,
                   active, started>>

\* run() returns with srvErr, the error of srv.Shutdown if any: the
\* deferred function joins it with the error of otelShutdown.  main logs
\* the error and returns, which ends the process and with it the handlers
\* that are still running.
RunReturns(srvErr) ==
    /\ mainPc' = "returned"
    /\ \E fails \in SUBSET Cleanups :
         /\ otel' = Shutdown(otel, fails)
         /\ runErr' = (srvErr \/ otel'.ret # {})
    /\ call' = [c \in Callers |->
                  IF call[c].st = "run" THEN [call[c] EXCEPT !.st = "killed"]
                                        ELSE call[c]]

----------------------------------------------------------------------------
(* variant "server": run() of cmd/server and the handlers.                 *)

\* <-ctx.Done() of signal.NotifyContext: stop(), then srv.Shutdown with a
\* context of 10 seconds; the listeners are closed at once.
ServerSignal ==
    /\ variant = "server"
    /\ mainPc = "select"
    /\ sigPending
    /\ sigPending' = FALSE
    /\ ctxDone' = TRUE
    /\ srvClosed' = TRUE
    /\ mainPc' = "shutdown"
    /\ UNCHANGED <<cfgVars, otel, logger, httpPc, runWg, runErr, closeErr, pc, tickVars, wg,
                   units, call, reqVars, active, started>>

\* srv.Shutdown returns nil: no connection is active any more.
ShutdownDone ==
    /\ variant = "server"
    /\ mainPc = "shutdown"
    /\ \A c \in Reqs : call[c].st = "idle"
    /\ RunReturns(FALSE)
    /\ UNCHANGED <<cfgVars, logger, sigPending, ctxDone, srvClosed, httpPc, runWg,
                   closeErr, pc, tickVars, wg, units, reqVars, active,
                   started>>

\* The 10 seconds pass first: srv.Shutdown returns the context's error and
\* run() returns it.
ShutdownTimeout ==
    /\ variant = "server"
    /\ mainPc = "shutdown"
    /\ RunReturns(TRUE)
    /\ UNCHANGED <<cfgVars, logger, sigPending, ctxDone, srvClosed, httpPc, runWg,
                   closeErr, pc, tickVars, wg, units, reqVars, active,
                   started>>

\* A handler is entered with the path value raw: getServerIDs, then either
\* 400 and return, or the call of fn with the request's context.
Handle(c, fn, kind, raw) ==
    /\ variant = "server"
    /\ httpPc = "listening"
    /\ ~srvClosed
    /\ call[c].st = "idle"
    /\ reqCtxDone' = [reqCtxDone EXCEPT ![c] = FALSE]
    /\ IF GetServerIDs(raw).err
       THEN /\ resp' = [resp EXCEPT ![c] = "BadRequest"]
            /\ UNCHANGED call
       ELSE /\ resp' = [resp EXCEPT ![c] = "none"]
            /\ call' = [call EXCEPT
                          ![c] = StartCall(fn, kind, GetServerIDs(raw).ids)]
    /\ UNCHANGED <<cfgVars, otel, logger, mainVars, pc, tickVars, wg, units, active,
                   started>>

\* A request arrives.
Request(c, fn, kind) == \E raw \in RawIds : Handle(c, fn, kind, raw)

\* speedHandlerFunc: netmon.Speed(r.Context(), serverIDs).
SpeedRequest(c) == Request(c, "Speed", "speed")

\* pingHandlerFunc: netmon.Ping(r.Context(), serverIDs).
PingRequest(c) == Request(c, "Ping", "ping")

\* Mutant: the handlers are handed one context for all requests.
CancelScopeAll(c) == Reqs

\* The requests whose context ends with that of request c: net/http makes
\* a context for each request and http.TimeoutHandler derives from it the
\* one with the timeout, and the handler passes on r.Context().
CancelScope(c) == {c}

\* The request's context ends: the client went away, or the 59 seconds of
\* http.TimeoutHandler passed.
RequestCancel(c) ==
    /\ variant = "server"
    /\ call[c].st = "run"
    /\ ~reqCtxDone[c]
    /\ reqCtxDone' = [x \in Reqs |-> reqCtxDone[x] \/ x \in CancelScope(c)]
    /\ UNCHANGED <<cfgVars, otel, logger, mainVars, pc, tickVars, wg, units, call,
                   resp, active, started>>

\* Mutant: a round that holds a failed target is answered as an error.
StatusAfterStrict(d) ==
    IF d.err \/ \E j \in 1..Len(d.res) : ~d.res[j].ok
    THEN "InternalServerError" ELSE "OK"

\* The status the handler writes once the call has returned: 500 for the
\* error of netmon.Ping, else the results with 200.  netmon.Speed returns
\* no error.
StatusAfter(d) == IF d.err THEN "InternalServerError" ELSE "OK"

\* speedHandlerFunc: the results are marshalled and written.
SpeedRespond(c) ==
    /\ variant = "server"
    /\ call[c].fn = "Speed"
    /\ call[c].st = "returned"
    /\ resp' = [resp EXCEPT ![c] = StatusAfter(call[c])]
    /\ call' = [call EXCEPT ![c] = IdleCall]
    /\ UNCHANGED <<cfgVars, otel, logger, mainVars, pc, tickVars, wg, units,
                   reqCtxDone, active, started>>

\* pingHandlerFunc: 500 for an error of netmon.Ping, else the results are
\* marshalled and written.
PingRespond(c) ==
    /\ variant = "server"
    /\ call[c].fn = "Ping"
    /\ call[c].st = "returned"
    /\ resp' = [resp EXCEPT ![c] = StatusAfter(call[c])]
    /\ call' = [call EXCEPT ![c] = IdleCall]
    /\ UNCHANGED <<cfgVars, otel, logger, mainVars, pc, tickVars, wg, units,
                   reqCtxDone, active, started>>

----------------------------------------------------------------------------

\* The state once run() has read the configuration, called the
\* constructors and started its goroutines ("process": once the
\* configuration is read; "server": once the port is read, before Setup).
\* The server has no periodic configuration.
Init ==
    /\ variant \in Variants
    /\ nTargets \in ListLens(variant)
    /\ interval \in IF variant = "server" THEN {Interval} ELSE Intervals
    /\ otel = IF variant = "server" THEN [OtelOff EXCEPT !.pc = "resource"]
                                    ELSE OtelOff
    /\ mainPc = CASE ~Constructed(variant, nTargets, interval) -> "returned"
                  [] variant = "process" -> "start"
                  [] variant = "server" -> "setup"
                  [] OTHER -> "select"
    /\ sigPending = FALSE
    /\ ctxDone = FALSE
    /\ srvClosed = FALSE
    /\ httpPc = IF variant \in {"process", "server"}
                    \/ ~Constructed(variant, nTargets, interval)
                THEN "off" ELSE "listening"
    /\ runWg = IF variant = "monitor" THEN 2 ELSE 0
    /\ runErr = ~Constructed(variant, nTargets, interval)
    /\ closeErr = FALSE
    /\ logger = LogIdle
    /\ pc = [l \in Loops |->
               CASE ~Constructed(variant, nTargets, interval) -> "off"
                 [] variant = "monitor" /\ l \in Kinds -> "start"
                 [] variant = "scheduler" /\ l = "sched" -> "start"
                 [] OTHER -> "off"]
    /\ tickOn = [k \in Kinds |-> FALSE]
    /\ tickPending = [k \in Kinds |-> FALSE]
    /\ wg = [k \in Kinds |-> 0]
    /\ units = {}
    /\ call = [c \in Callers |-> IdleCall]
    /\ reqCtxDone = [c \in Reqs |-> FALSE]
    /\ resp = [c \in Reqs |-> "none"]
    /\ active = [k \in Kinds |-> 0]
    /\ timer = [k \in Kinds |-> 0]
    /\ started = [k \in Kinds |-> FALSE]

Next ==
    \/ \E k \in Kinds : Tick(k)
    \/ Tock
    \/ \E k \in Kinds : MonitorStart(k)
    \/ \E k \in Kinds : MonitorTick(k)
    \/ \E k \in Kinds : MonitorJoin(k)
    \/ \E k \in Kinds : MonitorCtxDone(k)
    \/ \E u \in units : MeasureStage(u)
    \/ \E u \in units : MeasureHang(u)
    \/ \E u \in units : MeasureReport(u)
    \/ \E c \in Callers : CallSetup(c)
    \/ \E c \in Callers : CallStage(c)
    \/ ScheduleInitPing
    \/ ScheduleInitSpeed
    \/ ScheduleTickers
    \/ \E k \in Kinds : LoopTick(k)
    \/ LoopResume
    \/ LoopCtxDone
    \/ Signal
    \/ RunSignal
    \/ RunCtxDone
    \/ RunWait
    \/ RunFirst
    \/ RunStart
    \/ RunRecv
    \/ HttpReturns
    \/ SetupResource
    \/ SetupTracer
    \/ ServerSignal
    \/ ShutdownDone
    \/ ShutdownTimeout
    \/ \E c \in Reqs : SpeedRequest(c)
    \/ \E c \in Reqs : PingRequest(c)
    \/ \E c \in Reqs : RequestCancel(c)
    \/ \E c \in Reqs : SpeedRespond(c)
    \/ \E c \in Reqs : PingRespond(c)

Spec == Init /\ [][Next]_vars

\* One request to /api/v1/speed/{ids} at a time, with longer path values.
SpeedRequestAlone == \E raw \in LongRawIds : Handle("req", "Speed", "speed", raw)

\* The state in which the server is listening.
Listening ==
    /\ variant = "server"
    /\ mainPc = "select"
    /\ otel = [OtelOff EXCEPT !.pc = "returned", !.funcs = <<"tracerProvider">>]
    /\ httpPc = "listening"
    /\ nTargets = NumTargets
    /\ interval = Interval
    /\ sigPending = FALSE /\ ctxDone = FALSE /\ srvClosed = FALSE
    /\ runWg = 0 /\ runErr = FALSE /\ closeErr = FALSE
    /\ logger = LogIdle
    /\ pc = [l \in Loops |-> "off"]
    /\ tickOn = [k \in Kinds |-> FALSE]
    /\ tickPending = [k \in Kinds |-> FALSE]
    /\ wg = [k \in Kinds |-> 0]
    /\ units = {}
    /\ call = [c \in Callers |-> IdleCall]
    /\ reqCtxDone = [c \in Reqs |-> FALSE]
    /\ resp = [c \in Reqs |-> "none"]
    /\ active = [k \in Kinds |-> 0]
    /\ timer = [k \in Kinds |-> 0]
    /\ started = [k \in Kinds |-> FALSE]

SpeedInit == Listening

SpeedNext ==
    \/ SpeedRequestAlone
    \/ \E c \in {"req"} : CallStage(c)
    \/ \E c \in {"req"} : RequestCancel(c)
    \/ \E c \in {"req"} : SpeedRespond(c)

SpeedSpec == SpeedInit /\ [][SpeedNext]_vars

\* The life of the server's run() around the telemetry SDK, with one
\* request at a time and a holder of the shutdown function that calls it at
\* any time after Setup has returned.
OtelInit == Init /\ variant = "server"

OtelNext ==
    \/ SetupResource
    \/ SetupTracer
    \/ ShutdownCall
    \/ Signal
    \/ ServerSignal
    \/ ShutdownDone
    \/ ShutdownTimeout
    \/ HttpReturns
    \/ \E c \in {"req"} : SpeedRequest(c)
    \/ \E c \in {"req"} : CallStage(c)
    \/ \E c \in {"req"} : RequestCancel(c)
    \/ \E c \in {"req"} : SpeedRespond(c)

OtelSpec == OtelInit /\ [][OtelNext]_vars

\* The Go scheduler runs every goroutine that can take a step, and a probe
\* that has not hung returns.  A select chooses at random among its ready
\* cases, so the case <-ctx.Done() that is ready whenever the loop comes
\* back to the select is taken in the end (strong fairness).  Nothing
\* obliges the environment to send a signal, fire a ticker, send or abandon
\* a request, or hang a probe.
FairSpec ==
    /\ Spec
    /\ \A k \in Kinds :
         /\ WF_vars(MonitorStart(k))
         /\ WF_vars(MonitorTick(k)) /\ WF_vars(MonitorJoin(k))
         /\ SF_vars(MonitorCtxDone(k)) /\ WF_vars(LoopTick(k))
    /\ \A c \in Callers : WF_vars(CallSetup(c)) /\ WF_vars(CallStage(c))
    /\ WF_vars(\E u \in units : MeasureStage(u))
    /\ WF_vars(\E u \in units : MeasureReport(u))
    /\ WF_vars(ScheduleInitPing) /\ WF_vars(ScheduleInitSpeed)
    /\ WF_vars(ScheduleTickers) /\ WF_vars(LoopResume)
    /\ SF_vars(LoopCtxDone)
    /\ WF_vars(RunSignal) /\ WF_vars(RunCtxDone) /\ WF_vars(RunWait)
    /\ WF_vars(RunFirst) /\ WF_vars(RunStart) /\ WF_vars(RunRecv)
    /\ WF_vars(HttpReturns) /\ WF_vars(ServerSignal)
    /\ WF_vars(SetupResource) /\ WF_vars(SetupTracer)
    /\ WF_vars(ShutdownDone \/ ShutdownTimeout)
    /\ \A c \in Reqs : WF_vars(SpeedRespond(c)) /\ WF_vars(PingRespond(c))

\* The program of the Monitors on its own, run() with the goroutines of the
\* two Monitors and of the listener, under the same scheduling.
MonitorInit == Init /\ variant = "monitor"

MonitorNext ==
    \/ \E k \in Kinds : Tick(k)
    \/ Tock
    \/ \E k \in Kinds : MonitorStart(k)
    \/ \E k \in Kinds : MonitorTick(k)
    \/ \E k \in Kinds : MonitorJoin(k)
    \/ \E k \in Kinds : MonitorCtxDone(k)
    \/ \E u \in units : MeasureStage(u)
    \/ \E u \in units : MeasureHang(u)
    \/ \E u \in units : MeasureReport(u)
    \/ Signal
    \/ RunSignal
    \/ RunCtxDone
    \/ RunWait
    \/ HttpReturns

MonitorFairSpec ==
    /\ MonitorInit /\ [][MonitorNext]_vars
    /\ \A k \in Kinds :
         /\ WF_vars(MonitorStart(k))
         /\ WF_vars(MonitorTick(k)) /\ WF_vars(MonitorJoin(k))
         /\ SF_vars(MonitorCtxDone(k))
    /\ WF_vars(\E u \in units : MeasureStage(u))
    /\ WF_vars(\E u \in units : MeasureReport(u))
    /\ WF_vars(RunSignal) /\ WF_vars(RunCtxDone) /\ WF_vars(RunWait)
    /\ WF_vars(HttpReturns)

\* Scheduler.Schedule and process with their run(), as time passes: a
\* ticker whose period has passed fires, time goes on, every goroutine that
\* can take a step takes it, and the select, which chooses at random among
\* its ready cases, does not pass over a case that is ready again and again
\* for ever (strong fairness of the cases).  Nothing obliges the
\* environment to send a signal.
LoopInit == Init /\ variant \in {"scheduler", "process"}

LoopNext ==
    \/ \E k \in Kinds : Tick(k)
    \/ Tock
    \/ \E c \in {"main", "loop"} : CallSetup(c)
    \/ \E c \in {"main", "loop"} : CallStage(c)
    \/ ScheduleInitPing
    \/ ScheduleInitSpeed
    \/ ScheduleTickers
    \/ \E k \in Kinds : LoopTick(k)
    \/ LoopResume
    \/ LoopCtxDone
    \/ Signal
    \/ RunSignal
    \/ RunCtxDone
    \/ RunWait
    \/ RunFirst
    \/ RunStart
    \/ RunRecv
    \/ HttpReturns

LoopSpec ==
    /\ LoopInit /\ [][LoopNext]_vars
    /\ WF_vars(Tock)
    /\ \A k \in Kinds : WF_vars(Tick(k)) /\ SF_vars(LoopTick(k))
    /\ \A c \in {"main", "loop"} :
         WF_vars(CallSetup(c)) /\ WF_vars(CallStage(c))
    /\ WF_vars(ScheduleInitPing) /\ WF_vars(ScheduleInitSpeed)
    /\ WF_vars(ScheduleTickers) /\ WF_vars(LoopResume)
    /\ SF_vars(LoopCtxDone)
    /\ WF_vars(RunSignal) /\ WF_vars(RunCtxDone) /\ WF_vars(RunWait)
    /\ WF_vars(RunFirst) /\ WF_vars(RunStart) /\ WF_vars(RunRecv)
    /\ WF_vars(HttpReturns)

\* The SpeedMonitor of package netmon on its own: one goroutine runs
\* Monitor with a valid configuration, under a run() like that of the
\* Monitors, which cancels the context and waits for the goroutine.
NetmonInit ==
    /\ variant = "monitor"
    /\ nTargets = NumTargets
    /\ interval = Interval
    /\ otel = OtelOff
    /\ mainPc = "select"
    /\ sigPending = FALSE /\ ctxDone = FALSE /\ srvClosed = FALSE
    /\ httpPc = "listening"
    /\ runWg = 1 /\ runErr = FALSE /\ closeErr = FALSE
    /\ logger = LogIdle
    /\ pc = [l \in Loops |-> IF l = "speed" THEN "start" ELSE "off"]
    /\ tickOn = [k \in Kinds |-> FALSE]
    /\ tickPending = [k \in Kinds |-> FALSE]
    /\ wg = [k \in Kinds |-> 0]
    /\ units = {}
    /\ call = [c \in Callers |-> IdleCall]
    /\ reqCtxDone = [c \in Reqs |-> FALSE]
    /\ resp = [c \in Reqs |-> "none"]
    /\ active = [k \in Kinds |-> 0]
    /\ timer = [k \in Kinds |-> 0]
    /\ started = [k \in Kinds |-> FALSE]

NetmonNext ==
    \/ \E k \in {"speed"} : Tick(k)
    \/ Tock
    \/ \E k \in {"speed"} : MonitorStart(k)
    \/ \E k \in {"speed"} : MonitorTick(k)
    \/ \E k \in {"speed"} : MonitorJoin(k)
    \/ \E k \in {"speed"} : MonitorCtxDone(k)
    \/ \E u \in units : SpeedMonitorMeasure(u)
    \/ \E u \in units : SpeedMonitorReport(u)
    \/ Signal
    \/ RunSignal
    \/ RunCtxDone
    \/ RunWait
    \/ HttpReturns

NetmonSpec == NetmonInit /\ [][NetmonNext]_vars

\* The goroutines of the Monitors' program logging through the shared
\* Log, each a few lines, in any interleaving.
LogInit == Init /\ variant = "monitor" /\ nTargets = NumTargets
                /\ interval = Interval

LogNext ==
    \/ \E g \in Loggers : LogCall(g)
    \/ \E g \in Loggers : LogLock(g)
    \/ \E g \in Loggers : LogPrintf(g)
    \/ \E g \in Loggers : LogUnlock(g)

LogSpec == LogInit /\ [][LogNext]_vars

----------------------------------------------------------------------------
(* The claims.                                                             *)

Other(k) == IF k = "ping" THEN "speed" ELSE "ping"

\* How often id occurs in the sequence q.
Count(q, id) == Cardinality({j \in 1..Len(q) : q[j] = id})

ResultIds(d) == [j \in 1..Len(d.res) |-> d.res[j].id]

\* C1: failure isolation.  When a fan-out round of a Monitor has joined,
\* and when netmon.Speed has returned, every target B of the round has one
\* outcome of its own, and unless the round's context was cancelled B
\* succeeded exactly if the network answered B's own probes: whatever the
\* probes of the other targets did (succeeded, failed, timed out).
FailureIsolation ==
    /\ \A k \in Kinds :
         (pc[k] = "join" /\ wg[k] = 0) =>
             \A t \in Targets :
                 /\ Cardinality({u \in UnitsOf(k) : u.t = t}) = 1
                 /\ \A u \in UnitsOf(k) :
                      /\ ~Live(u)
                      /\ ~ctxDone => (u.st = "ok" <=> u.net = "ok")
    /\ \A c \in Reqs :
         (call[c].fn = "Speed" /\ call[c].st = "returned") =>
             \A i \in 1..Len(call[c].targets) :
                 /\ i <= Len(call[c].res)
                 /\ call[c].res[i].id = call[c].targets[i]
                 /\ ~reqCtxDone[c] => (call[c].res[i].ok
                                        <=> call[c].res[i].net = "ok")

\* A joined fan-out round in which one target failed or timed out and
\* another succeeded, or a returned Speed round of that shape.
FailureIsolationWitness ==
    \/ \E k \in Kinds :
         /\ pc[k] = "join" /\ wg[k] = 0
         /\ \E u, v \in UnitsOf(k) :
              u.st = "failed" /\ u.net = "timeout" /\ v.st = "ok"
    \/ /\ call["req"].fn = "Speed"
       /\ call["req"].st = "returned"
       /\ Len(call["req"].res) = 2
       /\ ~call["req"].res[1].ok /\ call["req"].res[2].ok

\* C2: in a round run by netmon.SpeedTest whose server list was fetched,
\* a failing ping, download or upload test of one server does not keep the
\* remaining servers from being measured: when SpeedTest has returned,
\* every server of the round was measured.
SpeedTestMeasuresAll ==
    \A c \in {"main", "loop"} :
        (/\ call[c].fn \in {"SpeedTestPing", "SpeedTestFull"}
         /\ call[c].st = "returned"
         /\ call[c].i >= 1)
        => Len(call[c].res) = Len(call[c].targets)

\* C3: at most one scheduled round of each kind is in flight.
OneRoundPerKind == \A k \in Kinds : active[k] <= 1

\* A tick-started round of Schedule is in flight while the ticker of the
\* other kind has already fired.
OneRoundPerKindWitness ==
    /\ variant = "scheduler"
    /\ pc["sched"] = "round"
    /\ call["loop"].st = "run"
    /\ active[call["loop"].kind] = 1
    /\ tickPending[Other(call["loop"].kind)]

\* C4: when netmon.Speed has returned, it returns one result for each
\* supplied server id: as many results as ids, and each id as often among
\* the results as among the ids.
SpeedOneResultPerId ==
    \A c \in Reqs :
        (call[c].fn = "Speed" /\ call[c].st = "returned") =>
            /\ Len(call[c].res) = Len(call[c].targets)
            /\ \A i \in 1..Len(call[c].targets) :
                 Count(ResultIds(call[c]), call[c].targets[i])
                     = Count(call[c].targets, call[c].targets[i])

\* Speed has returned for two ids, the first of which failed.
SpeedOneResultPerIdWitness ==
    /\ call["req"].fn = "Speed" /\ call["req"].st = "returned"
    /\ Len(call["req"].targets) = 2
    /\ ~call["req"].res[1].ok

\* C5: join barrier.  Outside the wait of its round (at the select, or
\* after the loop has ended) a Monitor has no unit left.
JoinBarrier ==
    \A k \in Kinds : pc[k] # "join" => UnitsOf(k) = {}

\* The Monitor waits in wg.Wait() while one unit of the round has ended
\* and another is still running.
JoinBarrierWitness ==
    \E k \in Kinds :
        /\ pc[k] = "join"
        /\ \E u, v \in UnitsOf(k) : ~Live(u) /\ Live(v)

\* C6: no round is started in a state in which the context of run() is
\* already cancelled.
NoRoundAfterCancel ==
    [][\A k \in Kinds : active'[k] > active[k] => ~ctxDone]_vars

\* C7: once the context of a round is cancelled no unit of the round ends
\* as a success any more: no unit of a Monitor, no target of a sequential
\* round.
CancelEndsUnits ==
    [][/\ ctxDone => \A u \in units' : u.st = "ok" => u \in units
       /\ \A c \in Callers :
            (CallCtxDone(c) /\ Len(call'[c].res) > Len(call[c].res))
            => ~call'[c].res[Len(call'[c].res)].ok]_vars

\* C8: run() has not returned while a scheduled round is in flight.
StopWaitsForRound ==
    mainPc = "returned" => \A k \in Kinds : active[k] = 0

\* C9: after a termination signal run() eventually returns (a process
\* that a panic has ended is not waiting to shut down).
ShutdownBounded == sigPending ~> (mainPc \in {"returned", "crashed"})

\* C10: a tick of kind k that is due while the program is not shutting
\* down can be served at once, whatever the round of the other kind does.
KindsIndependent ==
    \A k \in Kinds :
        (tickPending[k] /\ ~ctxDone) => ENABLED (LoopTick(k) \/ MonitorTick(k))

\* The step in which the loop of kind k comes back from a round and resets
\* the ticker of k.
Resets(k) ==
    \/ pc[k] = "join" /\ pc'[k] = "select"
    \/ /\ pc["sched"] = "round" /\ pc'["sched"] = "select"
       /\ call["loop"].kind = k

\* C12: when a round of kind k has completed and the loop resets the
\* ticker, the next tick of k is one whole interval away and none is
\* waiting in the channel: the interval is counted from the completion, not
\* from the tick that started the round.
NextTickFromCompletion ==
    [][\A k \in Kinds :
         Resets(k) => (tickOn'[k] /\ timer'[k] = Interval /\ ~tickPending'[k])]_vars

\* A loop is back at its select after a round that took less than the
\* interval; the ticker runs with the whole interval ahead.
NextTickFromCompletionWitness ==
    \E k \in Kinds :
        /\ started[k] /\ active[k] = 0
        /\ (pc[k] = "select" \/ pc["sched"] = "select")
        /\ tickOn[k] /\ timer[k] = Interval /\ ~tickPending[k]

\* C13 as stated: when a round of kind k that ran longer than its interval
\* completes, the next round of k starts at once: the tick is waiting or
\* due when the loop comes back to its select.
OverrunStartsNextAtOnce ==
    [][\A k \in Kinds :
         (Resets(k) /\ timer[k] = 0) => (tickPending'[k] \/ timer'[k] = 0)]_vars

\* C13 as amended: a round of kind k starts only when no round of k is in
\* flight, and when a round that ran longer than its interval completes,
\* no round of k starts in that step and the next tick of k is one whole
\* interval after the completion.
OverrunDelaysNext ==
    [][\A k \in Kinds :
         /\ active'[k] > active[k] => active[k] = 0
         /\ (Resets(k) /\ timer[k] = 0) =>
                /\ active'[k] = 0
                /\ ~tickPending'[k]
                /\ timer'[k] = Interval]_vars

\* A round of kind k has run past the time of the tick that would have
\* followed the one that started it, and is about to return to its loop.
OverrunDelaysNextWitness ==
    \E k \in Kinds :
        /\ started[k] /\ ~tickOn[k] /\ timer[k] = 0
        /\ \/ pc[k] = "join" /\ wg[k] = 0
           \/ /\ pc["sched"] = "round" /\ call["loop"].kind = k
              /\ call["loop"].st = "returned"

\* C14: every kind runs a first round at startup: when the first tick of
\* kind k is due, one interval after the ticker was created, a round of k
\* has already been started.
ImmediateFirstRound ==
    \A k \in Kinds : tickPending[k] => started[k]

\* C11: within a round in progress no target waits for another target's
\* probe: every target of a fan-out round has its unit, and behind the
\* target a sequential round is probing no target is left that has not been
\* started.
ProbesOverlap ==
    /\ \A k \in Kinds :
         pc[k] = "join" => \A t \in Targets : \E u \in UnitsOf(k) : u.t = t
    /\ \A c \in Callers :
         (call[c].st = "run" /\ call[c].i >= 1)
         => \A j \in 1..Len(call[c].targets) : j <= call[c].i

\* C18: a unit that ended because its context was cancelled (the network
\* answered, the probe returned the context's error) is not dropped: its
\* failure is handed on as a result.
CancelledRecorded ==
    \A u \in units : (u.st = "failed" /\ u.net = "ok") => u.rep # "none"

\* C19: a unit whose report failed ended like one whose report succeeded:
\* its outcome is the success of its probes, it has returned, and every
\* ended unit has released the wait of its round.
ReporterFailureHarmless ==
    /\ \A u \in units : u.rep = "err" => (u.st = "ok" /\ ~Live(u))
    /\ \A k \in Kinds :
         pc[k] = "join" => wg[k] = Cardinality({u \in UnitsOf(k) : Live(u)})

\* The round of a Monitor is ready to join; the report of one unit failed
\* and the report of another succeeded.
ReporterFailureHarmlessWitness ==
    \E k \in Kinds :
        /\ pc[k] = "join" /\ wg[k] = 0
        /\ \E u, v \in UnitsOf(k) : u.rep = "err" /\ v.rep = "ok"

\* C20: when the round of a Monitor is ready to join, the reporter has been
\* called for the result of every target of the round, success or failure.
ReportedOnce ==
    \A k \in Kinds :
        (pc[k] = "join" /\ wg[k] = 0) => \A u \in UnitsOf(k) : u.rep # "none"

\* C15: a request without server ids is answered 400 and nothing is
\* called: after the answer 400 the handler runs no round, and netmon.Speed
\* is never entered with the list an empty path value would split into, nor
\* with an empty list.
EmptyListRejected ==
    \A c \in Reqs :
        /\ resp[c] = "BadRequest" => call[c].st = "idle"
        /\ call[c].fn = "Speed" =>
               (call[c].targets # Split(<<>>) /\ Len(call[c].targets) >= 1)

\* A request without server ids has been answered 400 while the round of
\* another request is in progress.
EmptyListRejectedWitness ==
    \E c, d \in Reqs :
        resp[c] = "BadRequest" /\ call[c].st = "idle" /\ call[d].st = "run"

\* C16: an on-demand round is returned whole and failed targets do not make
\* it an error: netmon.Speed never returns an error, netmon.Ping returns one
\* only before any probe has started, a round that returns without error
\* holds a result for every target, and the handler answers it with 200.
OnDemandReturnsRound ==
    [][\A c \in Reqs :
         /\ call'[c].fn = "Speed" => ~call'[c].err
         /\ (call'[c].fn = "Ping" /\ call'[c].err)
                => (call'[c].i = 0 /\ call'[c].res = <<>>)
         /\ (call'[c].st = "returned" /\ ~call'[c].err)
                => Len(call'[c].res) = Len(call'[c].targets)
         /\ (call[c].st = "returned" /\ ~call[c].err /\ call'[c].st = "idle")
                => resp'[c] = "OK"]_vars

\* A handler has answered 200 while the round of the other request, which
\* holds a failed target, has returned without error.
OnDemandReturnsRoundWitness ==
    \E c, d \in Reqs :
        /\ resp[c] = "OK"
        /\ call[d].st = "returned" /\ ~call[d].err
        /\ \E j \in 1..Len(call[d].res) : ~call[d].res[j].ok

NoRoundWithoutTargets ==
    nTargets = 0 => \A k \in Kinds : ~started[k]

\* C22: with a zero or negative interval nothing is started: no round of
\* any kind is run and no probe is called.
NoRoundWithInvalidInterval ==
    interval <= 0 =>
        /\ \A k \in Kinds : ~started[k]
        /\ \A c \in Callers : call[c].st = "idle"
        /\ units = {}

\* C23: every failed entry of the results of netmon.Speed names its target:
\* the server id and the server label are both non-empty, whichever stage
\* failed.
SpeedFailuresLabelled ==
    \A c \in Reqs :
        call[c].fn = "Speed" =>
            \A j \in 1..Len(call[c].res) :
                ~call[c].res[j].ok =>
                    (call[c].res[j].id # <<>> /\ call[c].res[j].server # "")

\* C24: a latency round probes the configured servers and no other: every
\* server a ping-only SpeedTest is probing or has probed is one of the
\* configured ids.
LatencyRoundProbesConfigured ==
    \A c \in {"main", "loop"} :
        call[c].fn = "SpeedTestPing" =>
            /\ \A j \in 1..Len(call[c].res) : call[c].res[j].id \in Targets
            /\ (call[c].st = "run" /\ call[c].i >= 1)
                   => call[c].targets[call[c].i] \in Targets

\* C25: netmon.Speed keeps the order of its input: when it has returned,
\* the server ids of the results, read in order, are the ids it was handed,
\* whichever of them failed.
SpeedPreservesOrder ==
    \A c \in Reqs :
        (call[c].fn = "Speed" /\ call[c].st = "returned")
        => ResultIds(call[c]) = call[c].targets

\* Speed has returned for three ids, the first two different from each
\* other; the first succeeded and the second failed.
SpeedPreservesOrderWitness ==
    /\ call["req"].fn = "Speed" /\ call["req"].st = "returned"
    /\ Len(call["req"].targets) = 3
    /\ call["req"].targets[1] # call["req"].targets[2]
    /\ call["req"].res[1].ok /\ ~call["req"].res[2].ok

\* C26: over any sequence of calls of the shutdown function Setup returns,
\* each registered cleanup is invoked exactly once: never twice, and not at
\* all only while shutdown has not been called since it was registered.  A
\* call that follows another (the one of Setup's own error path included)
\* invokes nothing and returns nil, and what a call returns are the errors
\* of the cleanups it invoked, which Setup joins to its own error.
ShutdownOnce ==
    [][/\ \A f \in Cleanups :
            /\ otel'.invoked[f] + Pending(otel', f) <= 1
            /\ otel'.invoked[f] >= otel.invoked[f]
       /\ otel'.calls > otel.calls =>
            /\ otel'.funcs = <<>>
            /\ \A f \in Registered(otel) : otel'.invoked[f] = 1
            /\ otel'.ret = otel'.failed \ otel.failed
            /\ otel.calls >= 1 =>
                   (otel'.invoked = otel.invoked /\ otel'.ret = {})
       /\ (otel'.pc = "returned" /\ otel.pc # "returned" /\ otel'.err # {})
            => otel'.err = otel'.ret \cup {IF otel.pc = "resource"
                                           THEN "resource" ELSE "tracer"}]_vars

\* shutdown has been called three times; the cleanup was invoked once, by
\* the first call, and returned an error.
ShutdownOnceWitness ==
    /\ otel.calls = 3
    /\ otel.invoked["tracerProvider"] = 1
    /\ "tracerProvider" \in otel.failed
    /\ otel.ret = {}

\* C27: in a round of a Monitor every target is probed once: while the
\* round is in progress each configured target has exactly one unit and
\* every unit has a configured target of its own, and a unit only moves
\* forward: it runs each stage of its probe once and, once it has ended,
\* does not run again in the round.
ProbedOncePerTarget ==
    [][\A k \in Kinds :
         pc'[k] = "join" =>
             /\ \A t \in Targets :
                  Cardinality({v \in units' : v.k = k /\ v.t = t}) = 1
             /\ \A v \in units' : v.k = k => v.t \in Targets
             /\ pc[k] = "join" =>
                    \A u \in units, v \in units' :
                        (u.k = k /\ v.k = k /\ u.t = v.t /\ u # v)
                        => /\ u.st = "run"
                           /\ \/ v.st \in {"hung", "ok", "failed"}
                              \/ v.st = "run" /\ v.stage = u.stage + 1]_vars

\* A round of two targets is ready to join: the units of both targets have
\* ended, one after all its stages and one at its first probe.
ProbedOncePerTargetWitness ==
    \E k \in Kinds :
        /\ nTargets = 2 /\ pc[k] = "join" /\ wg[k] = 0
        /\ \E u, v \in UnitsOf(k) :
             u.t = 1 /\ v.t = 2 /\ u.st = "ok" /\ v.st = "failed"

\* The program is being stopped or has ended: a signal has arrived, or
\* run() has returned or the process has died.
Halted == sigPending \/ ctxDone \/ mainPc \in {"returned", "crashed"}

\* C28: in the loop of Schedule and of process every kind goes on
\* alternating between idle and running: a round in flight returns, and
\* unless the program is stopped the loop serves a tick of each kind again
\* and again, whatever the ticks of the other kind do.
KindsLive ==
    \A k \in Kinds :
        /\ (active[k] > 0) ~> (active[k] = 0)
        /\ <>Halted \/ []<><<LoopTick(k)>>_vars

\* The loop is at its select with a tick of each kind waiting: it serves
\* one and the other has to wait for the round.
KindsLiveWitness ==
    /\ pc["sched"] = "select"
    /\ \A k \in Kinds : tickPending[k] /\ started[k]
    /\ ~Halted

\* The step in which a loop takes a tick of kind k and starts the round.
TakesTick(k) ==
    /\ tickPending[k]
    /\ \/ pc[k] = "select" /\ pc'[k] = "join"
       \/ /\ pc["sched"] = "select" /\ pc'["sched"] = "round"
          /\ call'["loop"].kind = k

\* C29: ticks are not queued.  A tick of kind k arrives only when the
\* running ticker's period has run down, and then at most one is waiting,
\* however many fell due.  The round that takes it leaves none waiting and
\* stops the ticker; none arrives while the ticker is stopped; and when the
\* ticker is started again the whole interval lies ahead.  So between two
\* rounds of k that start from ticks lies a full interval, however long the
\* loop was busy.
TicksNotQueued ==
    [][\A k \in Kinds :
         /\ (tickPending'[k] /\ ~tickPending[k])
                => (tickOn[k] /\ timer[k] = 0)
         /\ TakesTick(k) => (~tickPending'[k] /\ ~tickOn'[k])
         /\ (~tickOn[k] /\ ~tickPending[k]) => ~tickPending'[k]
         /\ (tickOn'[k] /\ ~tickOn[k])
                => (timer'[k] = Interval /\ ~tickPending'[k])]_vars

\* The round of one kind has run for so long that the ticker of the other
\* kind, whose tick is waiting, is due again.
TicksNotQueuedWitness ==
    \E k \in Kinds :
        /\ pc["sched"] = "round" /\ call["loop"].kind = k
        /\ tickPending[Other(k)] /\ tickOn[Other(k)] /\ timer[Other(k)] = 0

\* C30: every unit of a round terminates: a Monitor that waits for the
\* units of its round eventually has none left to wait for.
UnitsTerminate ==
    \A k \in Kinds : (pc[k] = "join") ~> (wg[k] = 0)

\* C31: a speed measurement is handed to the reporter only when the ping,
\* the download and the upload test of the target succeeded in the round:
\* a unit of a speed Monitor for which the reporter was called has passed
\* over no error and ended as a success.
ReportsOnlySuccess ==
    \A u \in UnitsOf("speed") :
        u.rep # "none" => (u.errs = {} /\ u.st = "ok")

\* C32: the cancellation of an on-demand invocation is its own.  The step
\* in which the context of request c ends changes no other request's
\* context, no round of another caller, its results included, no unit of a
\* scheduled round and not the context of run(); and a target whose probe
\* the network answered ends as a failure only in a round whose own
\* context has ended.
CancelScoped ==
    [][\A c \in Reqs :
         /\ (reqCtxDone'[c] /\ ~reqCtxDone[c]) =>
                /\ \A d \in Reqs \ {c} : reqCtxDone'[d] = reqCtxDone[d]
                /\ \A d \in Callers \ {c} : call'[d] = call[d]
                /\ units' = units
                /\ active' = active
                /\ ctxDone' = ctxDone
         /\ (/\ Len(call'[c].res) > Len(call[c].res)
             /\ ~call'[c].res[Len(call'[c].res)].ok
             /\ call'[c].res[Len(call'[c].res)].net = "ok")
                => reqCtxDone[c]]_vars

\* Two rounds are in progress; the context of one request has ended and
\* its round has lost a target to it, the other round has a success.
CancelScopedWitness ==
    \E c, d \in Reqs :
        /\ c # d
        /\ call[c].st = "run" /\ call[d].st = "run"
        /\ reqCtxDone[c] /\ ~reqCtxDone[d]
        /\ \E j \in 1..Len(call[c].res) :
             ~call[c].res[j].ok /\ call[c].res[j].net = "ok"
        /\ \E j \in 1..Len(call[d].res) : call[d].res[j].ok

\* C33: a clean shutdown returns nil: when run() of a variant of cmd/main.go
\* has returned after the signal and srv.Close() succeeded, it has returned
\* no error, however the goroutine of the listener was scheduled.
CleanShutdownNil ==
    (/\ variant \in {"scheduler", "monitor", "process"}
     /\ mainPc = "returned" /\ srvClosed /\ ~closeErr)
    => ~runErr

\* C34: in netmon.Speed the stages of a target run in the order fetch,
\* ping, download, upload and the first that fails ends the target.  Every
\* step of a running Speed either goes on to the next stage of the same
\* target without a result, or ends the target with one result and goes on
\* to the next target.  The result is without Err exactly if the last stage
\* succeeded; Latency, DL and UL are set only by stages that succeeded: all
\* three in a result without Err, DL only if the target failed in the
\* upload, UL never and Latency only after the ping in a result with Err.
SpeedStagesInOrder ==
    [][\A c \in Reqs :
         (/\ call[c].fn = "Speed" /\ call[c].st = "run"
          /\ call'[c].fn = "Speed" /\ call'[c].st \in {"run", "returned"}
          /\ call'[c] # call[c])
         => LET d == call[c]
                e == call'[c]
                r == e.res[Len(e.res)]
                at == TargetStages("Speed")[d.stage]
            IN  \/ /\ e.i = d.i /\ e.stage = d.stage + 1 /\ e.res = d.res
                   /\ d.stage < Len(TargetStages("Speed"))
                \/ /\ e.i = d.i + 1
                   /\ e.res = Append(d.res, r)
                   /\ e.stage = IF e.st = "run" THEN 1 ELSE 0
                   /\ r.id = d.targets[d.i]
                   /\ r.ok => (at = "upload" /\ r.lat /\ r.dl /\ r.ul)
                   /\ ~r.ok => /\ ~r.ul
                               /\ r.dl <=> at = "upload"
                               /\ r.lat <=> at \in {"download", "upload"}]_vars

\* C35: the join counter of a round is balanced.  The counter of the
\* WaitGroup of each Monitor is never negative and is the number of units
\* of the round that have not ended: every unit takes one from it when it
\* ends, by whichever return of measure.  So wg.Wait() can return exactly
\* when every unit of the round has ended, which for a round without
\* targets is at once.
JoinBalanced ==
    \A k \in Kinds :
        /\ wg[k] >= 0
        /\ wg[k] = Cardinality({u \in UnitsOf(k) : Live(u)})
        /\ pc[k] = "join" =>
               (ENABLED MonitorJoin(k) <=> \A u \in UnitsOf(k) : ~Live(u))
        /\ (pc[k] = "join" /\ nTargets = 0) => ENABLED MonitorJoin(k)

\* The round of a Monitor with two targets can join: one unit returned
\* after the error of a probe, the other after the error of the reporter.
JoinBalancedWitness ==
    \E k \in Kinds :
        /\ pc[k] = "join" /\ wg[k] = 0 /\ nTargets = 2
        /\ \E u, v \in UnitsOf(k) :
             /\ u.st = "failed" /\ u.net = "err"
             /\ v.st = "ok" /\ v.rep = "err"

\* The goroutines between l.mu.Lock() and l.mu.Unlock().
InPrintf == {g \in Loggers : logger.pc[g] \in {"print", "unlock"}}

\* C36: Log.Printf is mutually exclusive and does not leave the mutex
\* held.  At most one goroutine is between Lock and Unlock, and so inside
\* log.Printf; the mutex is held exactly while one is; and a goroutine that
\* waits in Lock is not stuck: the mutex is free for it, or its holder can
\* go on to release it.
LogExclusive ==
    /\ Cardinality(InPrintf) <= 1
    /\ logger.mu <=> InPrintf # {}
    /\ \A g \in Loggers :
         logger.pc[g] = "lock" =>
             \/ ENABLED LogLock(g)
             \/ \E h \in InPrintf : ENABLED (LogPrintf(h) \/ LogUnlock(h))

\* One goroutine is inside log.Printf with its second line while the two
\* others wait in Lock.
LogExclusiveWitness ==
    \E g \in Loggers :
        /\ logger.pc[g] = "print" /\ logger.lines[g] = 2
        /\ \A h \in Loggers \ {g} : logger.pc[h] = "lock"

====
